---- MODULE Spec2Model ----
(***************************************************************************)
(* Model of bg_remover.py: the Streamlit script main(), the batch run      *)
(* process_images_parallel() with its ThreadPoolExecutor tasks, and the    *)
(* download encoders.                                                      *)
(*                                                                         *)
(* Python values are records with a field "tag": None, a PIL image, the    *)
(* text of a message, a file name.  An uploaded file is a record with its  *)
(* name and its kind; the kind fixes the byte size and what PIL and rembg  *)
(* do with the bytes.                                                      *)
(***************************************************************************)
EXTENDS Integers, Sequences, FiniteSets

\* ---- program constants -------------------------------------------------
MAX_FILES == 10
MAX_IMAGE_SIZE_MB == 10
MB_TO_BYTES == 1024 * 1024

\* ---- bounds of the model -----------------------------------------------
\* uploads of 1..MaxSmall files take every combination of file kinds
MaxSmall == 2
\* uploads of MAX_FILES+1 .. MAX_FILES+MaxExtra files: the first file is of
\* any kind, file MAX_FILES is of kind jpg or corrupt, the others of kind jpg
MaxExtra == 1
\* threads of the pool (ThreadPoolExecutor() sizes it from the cpu count)
MaxWorkers == 2

VARIABLES
    processing,        \* st.session_state.processing
    results,           \* st.session_state.results
    uploaded_files,    \* argument of the latest process_images_parallel
    bg_option,         \* argument of the latest process_images_parallel
    bg_image,          \* argument of the latest process_images_parallel
    futures,           \* the list futures of the latest run
    i,                 \* iterations of the collecting loop that are over
    progress,          \* (completed, total) shown by the latest run
    warnings,          \* st.warning calls of the latest run
    errors,            \* st.error calls of the latest run
    truncation_warned, \* the script run of the latest batch cut the upload
    uncaught,          \* the latest script run died of an uncaught exception
    downloads,         \* what the download buttons encoded since that run
    replaced,          \* history: the session held results when the latest
                       \* batch was submitted
    pc                 \* "idle": no script run is inside the batch function

vars == <<processing, results, uploaded_files, bg_option, bg_image, futures,
          i, progress, warnings, errors, truncation_warned, uncaught,
          downloads, replaced, pc>>

\* ---- values --------------------------------------------------------------
None == [tag |-> "None"]

Str(v) == [tag |-> "str", v |-> v]

PILImage(mode, opaque, src) ==
    [tag |-> "Image", mode |-> mode, opaque |-> opaque, src |-> src]

\* bool(v) of Python for the values of this program
Truthy(v) == v.tag # "None"

\* ---- uploaded files ------------------------------------------------------
\* jpg: opaque picture whose size is exactly the limit; big: a picture one
\* byte over the limit; corrupt: bytes PIL cannot decode; hard: a picture
\* that decodes, but on which the segmentation model fails
Kinds == {"jpg", "big", "corrupt", "hard"}

File(name, kind) == [name |-> name, kind |-> kind]

\* len(file.getvalue())
Size(file) ==
    IF file.kind = "big"
    THEN MAX_IMAGE_SIZE_MB * MB_TO_BYTES + 1
    ELSE MAX_IMAGE_SIZE_MB * MB_TO_BYTES

SmallUploads ==
    UNION { { [j \in 1..n |-> File(j, k[j])] : k \in [1..n -> Kinds] } : n \in 1..MaxSmall }

LargeUploads ==
    { [j \in 1..n |-> File(j, IF j = 1 THEN k[1] ELSE IF j = MAX_FILES THEN k[2] ELSE "jpg")] :
        n \in (MAX_FILES + 1)..(MAX_FILES + MaxExtra),
        k \in Kinds \X {"jpg", "corrupt"} }

Uploads == SmallUploads \cup LargeUploads

\* the sidebar's choice: the option and the uploaded background file
BgChoices ==
    { <<"Transparent", "none">>, <<"Color", "none">>, <<"Image", "none">>,
      <<"Image", "ok">>, <<"Image", "zero">> }

\* what one script run receives: the upload, the sidebar's choice and whether
\* the button was clicked.  A run that starts no batch (no click, or the
\* sidebar raising before the uploader exists) does not look at the upload
\* and is taken with an empty one.
Inputs ==
    { in \in (Uploads \cup {<<>>}) \X BgChoices \X BOOLEAN :
        (~in[3] \/ in[2][2] = "zero") => in[1] = <<>> }

\* ---- calls that return or raise -----------------------------------------
Returned(v) == [raised |-> FALSE, value |-> v]

Raised == [raised |-> TRUE, value |-> None]

\* the text of a message and the file it names
Msg(text, name) == [tag |-> "msg", text |-> text, file |-> name]

\* Image.open(file).convert("RGBA") of an uploaded file
OpenRGBA(file) ==
    IF file.kind = "corrupt"
    THEN Raised
    ELSE Returned(PILImage("RGBA", TRUE, file.name))

\* rembg's remove(), then Image.open(...).convert("RGBA"): the picture with
\* its background made transparent
remove_background(file) ==
    IF file.kind \in {"corrupt", "hard"}
    THEN Raised
    ELSE Returned(PILImage("RGBA", FALSE, file.name))

\* Image.alpha_composite(background, image): RGBA, and opaque wherever one of
\* the two layers is
alpha_composite(background, image) ==
    PILImage("RGBA", background.opaque \/ image.opaque, image.src)

add_color_background(image) ==
    alpha_composite(PILImage("RGBA", TRUE, image.src), image)

add_image_background(foreground, background_img) ==
    alpha_composite(PILImage("RGBA", TRUE, foreground.src), foreground)

\* the body of the try block of process_single_image
TryBody(file, option, image) ==
    IF Size(file) > MAX_IMAGE_SIZE_MB * MB_TO_BYTES
    THEN Returned(<<None, Msg("exceeds", file.name), None>>)
    ELSE LET original == OpenRGBA(file)
             removed == remove_background(file)
         IN  IF original.raised \/ removed.raised
             THEN Raised
             ELSE LET result ==
                        IF option = "Color"
                        THEN add_color_background(removed.value)
                        ELSE IF option = "Image" /\ Truthy(image)
                             THEN add_image_background(removed.value, image)
                             ELSE removed.value
                  IN  Returned(<<original.value, result, Str(file.name)>>)

\* the same without its except clause
process_single_image_uncaught(file, option, image) ==
    TryBody(file, option, image)

process_single_image(file, option, image) ==
    LET body == TryBody(file, option, image)
    IN  IF body.raised
        THEN Returned(<<None, Msg("error", file.name), None>>)
        ELSE body

\* ---- encoding -----------------------------------------------------------
\* the format chosen from the pixels instead of the mode
image_to_bytes_by_pixels(img) ==
    [format |-> IF img.opaque THEN "JPEG" ELSE "PNG", img |-> img]

image_to_bytes(img) ==
    [format |-> IF img.mode = "RGBA" THEN "PNG" ELSE "JPEG", img |-> img]

\* ---- the sidebar --------------------------------------------------------
\* what display_sidebar() returns, or that it raised: Image.open of a
\* zero-byte background file raises outside every try block
display_sidebar(upload, bg, click) ==
    IF bg[1] = "Image" /\ bg[2] = "zero"
    THEN [raised |-> TRUE, uploaded_files |-> <<>>, bg_option |-> bg[1],
          bg_image |-> None, warned |-> FALSE, process_btn |-> FALSE]
    ELSE [raised |-> FALSE,
          uploaded_files |->
              IF Len(upload) > MAX_FILES THEN SubSeq(upload, 1, MAX_FILES) ELSE upload,
          bg_option |-> bg[1],
          bg_image |->
              IF bg[1] = "Image" /\ bg[2] = "ok" THEN PILImage("RGB", TRUE, 0) ELSE None,
          warned |-> Len(upload) > MAX_FILES,
          process_btn |-> click /\ ~(processing \/ upload = <<>>)]

\* ---- the batch run ------------------------------------------------------
NoOutcome == Returned(<<None, None, None>>)

\* only the files under the size limit become tasks
SubmittedFilesAdmitted(files) ==
    SelectSeq(files, LAMBDA f : Size(f) <= MAX_IMAGE_SIZE_MB * MB_TO_BYTES)

\* the files that become tasks: all of them
SubmittedFiles(files) == files

\* a new run keeps what the session holds
InitialResultsKept(old) == old

\* st.session_state.results = []
InitialResults(old) == <<>>

\* the tasks the threads of the pool are executing: the pool takes the
\* tasks in the order of submission, MaxWorkers at a time
RunningTasks(fs) ==
    { t \in 1..Len(fs) :
        /\ ~fs[t].done
        /\ Cardinality({ u \in 1..(t - 1) : ~fs[u].done }) < MaxWorkers }

\* the entry goes to the front
AppendResultFront(rs, entry) == <<entry>> \o rs

\* st.session_state.results.append(...)
AppendResult(rs, entry) == Append(rs, entry)

\* the count is taken before the iteration
ProgressEventBefore(n, fs) == <<n, Len(fs)>>

\* the progress shown by the iteration that follows n finished ones
ProgressEvent(n, fs) == <<n + 1, Len(fs)>>

Init ==
    /\ processing = FALSE
    /\ results = <<>>
    /\ uploaded_files = <<>>
    /\ bg_option = "Transparent"
    /\ bg_image = None
    /\ futures = <<>>
    /\ i = 0
    /\ progress = <<>>
    /\ warnings = <<>>
    /\ errors = <<>>
    /\ truncation_warned = FALSE
    /\ uncaught = FALSE
    /\ downloads = <<>>
    /\ replaced = FALSE
    /\ pc = "idle"

\* one run of the script up to the end of the submissions to the pool, or
\* to its end when no batch starts
main ==
    /\ pc = "idle"
    /\ \E in \in Inputs :
         LET sb == display_sidebar(in[1], in[2], in[3])
         IN  IF sb.raised
             THEN /\ uncaught' = TRUE
                  /\ UNCHANGED <<processing, results, uploaded_files, bg_option,
                                 bg_image, futures, i, progress, warnings, errors,
                                 truncation_warned, replaced, downloads, pc>>
             ELSE IF sb.process_btn /\ sb.uploaded_files # <<>>
             THEN /\ processing' = TRUE
                  /\ results' = InitialResults(results)
                  /\ uploaded_files' = sb.uploaded_files
                  /\ bg_option' = sb.bg_option
                  /\ bg_image' = sb.bg_image
                  /\ futures' =
                        LET sub == SubmittedFiles(sb.uploaded_files)
                        IN  [j \in 1..Len(sub) |->
                                [file |-> sub[j], done |-> FALSE, outcome |-> NoOutcome]]
                  /\ i' = 0
                  /\ progress' = <<>>
                  /\ warnings' = <<>>
                  /\ errors' = <<>>
                  /\ truncation_warned' = sb.warned
                  /\ uncaught' = FALSE
                  /\ downloads' = <<>>
                  /\ replaced' = (results # <<>>)
                  /\ pc' = "running"
             ELSE /\ uncaught' = FALSE
                  /\ UNCHANGED <<processing, results, uploaded_files, bg_option,
                                 bg_image, futures, i, progress, warnings, errors,
                                 truncation_warned, replaced, downloads, pc>>

\* a thread of the pool runs process_single_image to its end
RunTask ==
    /\ pc = "running"
    /\ \E t \in RunningTasks(futures) :
         futures' = [futures EXCEPT ![t] =
                        [file |-> @.file, done |-> TRUE,
                         outcome |-> process_single_image(@.file, bg_option, bg_image)]]
    /\ UNCHANGED <<processing, results, uploaded_files, bg_option, bg_image, i,
                   progress, warnings, errors, truncation_warned, replaced, uncaught,
                   downloads, pc>>

\* one iteration of the loop over the futures: future.result() blocks until
\* the task is done
Collect ==
    /\ pc = "running"
    /\ i < Len(futures)
    /\ futures[i + 1].done
    /\ LET o == futures[i + 1].outcome
           original == o.value[1]
           result == o.value[2]
           name == o.value[3]
       IN  IF o.raised
           THEN /\ errors' = Append(errors, Msg("unexpected", futures[i + 1].file.name))
                /\ UNCHANGED <<results, warnings>>
           ELSE IF Truthy(original) /\ Truthy(result)
           THEN /\ results' = AppendResult(results, <<original, result, name>>)
                /\ UNCHANGED <<warnings, errors>>
           ELSE IF Truthy(name)
           THEN /\ warnings' = Append(warnings, result)
                /\ UNCHANGED <<results, errors>>
           ELSE UNCHANGED <<results, warnings, errors>>
    /\ progress' = Append(progress, ProgressEvent(i, futures))
    /\ i' = i + 1
    /\ UNCHANGED <<processing, uploaded_files, bg_option, bg_image, futures,
                   truncation_warned, replaced, uncaught, downloads, pc>>

\* the run returns with the flag left set
FinishKeepsFlag ==
    /\ pc = "running"
    /\ i = Len(futures)
    /\ pc' = "idle"
    /\ UNCHANGED <<processing, results, uploaded_files, bg_option, bg_image,
                   futures, i, progress, warnings, errors, truncation_warned, replaced,
                   uncaught, downloads>>

\* the loop and the with block are over: the end of process_images_parallel
Finish ==
    /\ pc = "running"
    /\ i = Len(futures)
    /\ processing' = FALSE
    /\ pc' = "idle"
    /\ UNCHANGED <<results, uploaded_files, bg_option, bg_image, futures, i,
                   progress, warnings, errors, truncation_warned, replaced, uncaught,
                   downloads>>

\* the download buttons of display_results(): download_single_image for one
\* result, download_all_images otherwise; both encode each original and
\* each result
Download ==
    /\ pc = "idle"
    /\ results # <<>>
    /\ downloads = <<>>
    /\ downloads' =
          [k \in 1..(2 * Len(results)) |->
              LET entry == results[(k + 1) \div 2]
              IN  IF k % 2 = 1
                  THEN [part |-> "original", name |-> entry[3], data |-> image_to_bytes(entry[1])]
                  ELSE [part |-> "result", name |-> entry[3], data |-> image_to_bytes(entry[2])]]
    /\ UNCHANGED <<processing, results, uploaded_files, bg_option, bg_image,
                   futures, i, progress, warnings, errors, truncation_warned, replaced,
                   uncaught, pc>>

Next == main \/ RunTask \/ Collect \/ Finish \/ Download

Spec == Init /\ [][Next]_vars

\* the threads of the pool run, and the script thread goes on when it can
FairSpec ==
    Spec /\ WF_vars(RunTask) /\ WF_vars(Collect) /\ WF_vars(Finish)

TypeOK ==
    /\ processing \in BOOLEAN
    /\ pc \in {"idle", "running"}
    /\ i \in 0..Len(futures)
    /\ Len(progress) = i

\* ---- properties ---------------------------------------------------------
Limit == MAX_IMAGE_SIZE_MB * MB_TO_BYTES

\* a batch has run to its end
Finished == pc = "idle" /\ futures # <<>>

\* a file that is under the limit, decodes and segments
ValidFile(f) == f.kind = "jpg"

\* the names of the valid files, in the order of the upload
ExpectedNames(files) ==
    LET valid == SelectSeq(files, ValidFile)
    IN  [k \in 1..Len(valid) |-> Str(valid[k].name)]

\* C1: after a batch run every file of the batch has one visible outcome,
\* an entry of the results or a warning, so the two counts add up to the
\* number of files.
C1_EveryFileHasVisibleOutcome ==
    Finished => Len(results) + Len(warnings) = Len(uploaded_files)

\* C2: a file that is too large, does not decode or does not segment ends
\* as a returned failure tuple whose message names that file, no task ends
\* by raising, nothing is reported as an unexpected error, and every valid
\* file of the same batch is in the results.
C2_FailureStaysInItsTask ==
    /\ errors = <<>>
    /\ \A j \in 1..Len(futures) : futures[j].done => ~futures[j].outcome.raised
    /\ Finished =>
         \A j \in 1..Len(uploaded_files) :
            LET f == uploaded_files[j]
                v == futures[j].outcome.value
            IN  IF ValidFile(f)
                THEN \E k \in 1..Len(results) : results[k][3] = Str(f.name)
                ELSE /\ v[1] = None
                     /\ v[3] = None
                     /\ v[2].tag = "msg"
                     /\ v[2].file = f.name
                     /\ \A k \in 1..Len(results) : results[k][3] # Str(f.name)

C2_Witness ==
    /\ Finished
    /\ results # <<>>
    /\ \E j \in 1..Len(uploaded_files) : uploaded_files[j].kind = "corrupt"
    /\ \E j \in 1..Len(uploaded_files) : uploaded_files[j].kind = "big"

\* C3 as stated: no file over the size limit becomes a task, and the number
\* of tasks and the total of every progress signal are the number of files
\* under the limit.
C3_OversizedNeverSubmitted ==
    /\ \A j \in 1..Len(futures) : Size(futures[j].file) <= Limit
    /\ Len(futures) = Len(SubmittedFilesAdmitted(uploaded_files))
    /\ \A k \in 1..Len(progress) :
          progress[k][2] = Len(SubmittedFilesAdmitted(uploaded_files))

\* C3 amended: every file of the batch becomes a task, the oversized ones
\* too; the task of an oversized file returns the failure tuple of the size
\* check; the total of every progress signal is the number of files of the
\* batch, and the last signal of a run is (N, N) for a batch of N files.
C3_SizeCheckedInsideTask ==
    /\ Len(futures) = Len(uploaded_files)
    /\ \A j \in 1..Len(futures) :
          /\ futures[j].file = uploaded_files[j]
          /\ (futures[j].done /\ Size(futures[j].file) > Limit) =>
                futures[j].outcome.value =
                    <<None, Msg("exceeds", futures[j].file.name), None>>
    /\ \A k \in 1..Len(progress) : progress[k][2] = Len(uploaded_files)
    /\ Finished =>
          progress[Len(progress)] = <<Len(uploaded_files), Len(uploaded_files)>>

C3_Witness ==
    /\ Finished
    /\ Len(uploaded_files) = 2
    /\ uploaded_files[1].kind = "big"
    /\ uploaded_files[2].kind = "jpg"
    /\ progress = << <<1, 2>>, <<2, 2>> >>

\* C4: the progress signals of a run are (1, T), (2, T), ... one for each
\* outcome collected, T being the number of tasks, and a finished run has
\* emitted all of them up to (T, T).
C4_ProgressCountsUp ==
    /\ progress = [k \in 1..i |-> <<k, Len(futures)>>]
    /\ Finished => (i = Len(futures) /\ i >= 1)

C4_Witness ==
    /\ Finished
    /\ Len(progress) = MAX_FILES
    /\ Len(results) < MAX_FILES

\* C5: the flag processing is set exactly while a batch run is executing,
\* and a run that has set it always clears it again.
C5_RunningReturnsToIdle ==
    /\ [](processing <=> pc = "running")
    /\ processing ~> ~processing

C5_Witness ==
    /\ Finished
    /\ ~processing
    /\ results = <<>>
    /\ Len(uploaded_files) = 2

\* C6: the results hold nothing but outcomes collected in the latest run:
\* each entry is the tuple returned by one of the tasks of that run whose
\* outcome the loop has collected, for a file of that run's batch.
C6_ResultsOfLatestRunOnly ==
    /\ Len(results) <= i
    /\ \A k \in 1..Len(results) :
          \E j \in 1..i :
             /\ j <= Len(uploaded_files)
             /\ futures[j].file = uploaded_files[j]
             /\ results[k] = futures[j].outcome.value
             /\ results[k][3] = Str(uploaded_files[j].name)

C6_Witness ==
    /\ replaced
    /\ Finished
    /\ results = <<>>

\* C7: at most MAX_FILES files are processed in a run, and after a run on a
\* truncated upload the entries of the results and the warnings add up to
\* the MAX_FILES files that were kept.
C7_TruncatedBatchCounts ==
    /\ Len(uploaded_files) <= MAX_FILES
    /\ Len(futures) <= MAX_FILES
    /\ (Finished /\ truncation_warned) =>
          /\ Len(uploaded_files) = MAX_FILES
          /\ Len(results) + Len(warnings) = MAX_FILES

\* C8 as stated: an encoded image is JPEG when it is fully opaque and PNG
\* when it has a transparent pixel.
C8_FormatFromTransparentPixels ==
    \A k \in 1..Len(downloads) :
       downloads[k].data.format =
          IF downloads[k].data.img.opaque THEN "JPEG" ELSE "PNG"

\* C8 amended: every image of the results, original or result, has mode RGBA,
\* and every image the download buttons encode is encoded as PNG, the fully
\* opaque ones too.
C8_PipelineImagesArePNG ==
    /\ \A k \in 1..Len(results) :
          results[k][1].mode = "RGBA" /\ results[k][2].mode = "RGBA"
    /\ \A k \in 1..Len(downloads) :
          /\ downloads[k].data.format = "PNG"
          /\ downloads[k].data.img =
                IF k % 2 = 1 THEN results[(k + 1) \div 2][1] ELSE results[(k + 1) \div 2][2]

C8_Witness ==
    /\ Len(downloads) = 4
    /\ downloads[1].part = "original"
    /\ downloads[1].data.img.opaque
    /\ bg_option = "Transparent"
    /\ \E k \in 1..Len(downloads) :
          ~downloads[k].data.img.opaque /\ downloads[k].part = "result"

\* C9: no script run ends by an uncaught exception, whatever background
\* file the sidebar received.
C9_NoUncaughtException == ~uncaught

\* C10: a step of a pool thread leaves the results as they are, and the
\* results of a finished run are the valid files of the batch in the order
\* of submission, each once.
C10_SingleWriterInOrder ==
    /\ [](Finished => [k \in 1..Len(results) |-> results[k][3]] = ExpectedNames(uploaded_files))
    /\ [][(pc = "running" /\ pc' = "running" /\ i' = i) => results' = results]_vars

C10_Witness ==
    /\ Finished
    /\ Len(results) >= 2
    /\ Len(results) < Len(uploaded_files)
====
